---- MODULE Spec2Model ----
(***************************************************************************)
(* Model of the Go causal-inference package:                               *)
(*   GenerateCausalData  (causalinference/causal_inference.go:14-38)       *)
(*   EstimateCausalEffect (causalinference/causal_inference.go:41-62)      *)
(* and of their callers (main, TestBasicFunctionality, BenchmarkAll).      *)
(*                                                                         *)
(* Real numbers are fixed-point integers in units of 1/Scale.  Scale is a  *)
(* power of two, so every modelled value and every sum of modelled values  *)
(* is exactly representable as a float64; only the two divisions of the    *)
(* estimator leave the grid, and their result is kept as an exact          *)
(* fraction (or NaN / Inf for a zero divisor, as float64 division gives).  *)
(*                                                                         *)
(* math/rand's package-level generator is ONE process-wide source.  It is  *)
(* modelled as a small deterministic generator: rand.Seed sets its state   *)
(* from the seed, every draw returns a value that is a function of the     *)
(* state and advances the state.  Each package-level call locks the        *)
(* source, so a call is one atomic step.                                   *)
(***************************************************************************)
EXTENDS Integers, Sequences, FiniteSets, TLC

\* ---------------------------------------------------------------- bounds
\* Largest n and seed passed to GenerateCausalData by the sequential caller.
MaxN == 3
MaxSeed == 5
\* Largest n and seed passed by each of the two concurrent callers.
MaxParN == 1
MaxParSeed == 2
\* Longest dataset a caller constructs by hand.
MaxLen == 3

\* ------------------------------------------------------ fixed-point scale
Scale == 4
RngMod == 64

\* The goroutines: main (or the test / benchmark goroutine) and one more.
Main == "main"
Procs == {"main", "worker"}

Sizes == -1 .. MaxN
Seeds == 0 .. MaxSeed
ParSizes == 0 .. MaxParN
ParSeeds == 0 .. MaxParSeed

\* --------------------------------------------------------- math/rand model
\* The state a seed puts the source in.
SeedState(s) == (s * 9 + 5) % RngMod

\* Variant: the rand.Seed call is missing, the source keeps its state.
RandSeedMissing(r, sd) == r

\* rand.Seed(sd) on a source in state r: the source forgets r.
RandSeed(r, sd) == SeedState(sd)

\* The shared source after one draw.
Advance(r) == (21 * r + 17) % RngMod

\* rand.NormFloat64(): a value in [-2, 2], in units of 1/Scale.
NormFloat64(r) == ((r * 11) % 17) - 2 * Scale

\* rand.Float64(): a value in [0, 1), in units of 1/Scale.
Float64(r) == (r \div 3) % Scale

\* ------------------------------------------------------------ float64 model
NaN == [kind |-> "NaN", num |-> 0, den |-> 0]
PosInf == [kind |-> "+Inf", num |-> 0, den |-> 0]
NegInf == [kind |-> "-Inf", num |-> 0, den |-> 0]
NoValue == [kind |-> "none", num |-> 0, den |-> 0]

Abs(a) == IF a < 0 THEN -a ELSE a

RECURSIVE GCD(_, _)
GCD(a, b) == IF b = 0 THEN a ELSE GCD(b, a % b)

\* The finite value a/b (b > 0), in lowest terms.
Frac(a, b) ==
    LET g == GCD(Abs(a), b)
    IN  [kind |-> "num", num |-> a \div g, den |-> b \div g]

Zero == Frac(0, 1)

\* float64 division of a sum by float64(count): a zero divisor does not
\* panic, it yields NaN or an infinity.
FDiv(a, b) ==
    IF b = 0
    THEN IF a = 0 THEN NaN ELSE IF a > 0 THEN PosInf ELSE NegInf
    ELSE Frac(a, b)

\* float64 subtraction.
FSub(p, q) ==
    IF p.kind = "NaN" \/ q.kind = "NaN" THEN NaN
    ELSE IF p.kind = "num" /\ q.kind = "num"
         THEN Frac(p.num * q.den - q.num * p.den, p.den * q.den)
    ELSE IF p.kind = "num" THEN (IF q.kind = "+Inf" THEN NegInf ELSE PosInf)
    ELSE IF q.kind = "num" THEN p
    ELSE IF p.kind = q.kind THEN NaN
    ELSE p

\* ------------------------------------------------------------- CausalData
\* TrueEffect: 5.0
TrueEffect == 5

\* Variants: a slice one element too long, one element too short.
MakeSliceLong(k) == [j \in 1 .. k + 1 |-> 0]

MakeSliceShort(k) == [j \in 1 .. k - 1 |-> 0]

\* make([]T, n): n zero values.
MakeSlice(k) == [j \in 1 .. k |-> 0]

NilData == [X |-> << >>, Treatment |-> << >>, Outcome |-> << >>, TrueEffect |-> 0]

\* Variant: Outcome allocated with a different length than X and Treatment.
NewCausalDataUneven(k) ==
    [X |-> MakeSlice(k), Treatment |-> MakeSlice(k), Outcome |-> MakeSlice(k + 1),
     TrueEffect |-> TrueEffect * Scale]

\* Variant: the TrueEffect field is left out of the literal (zero value).
NewCausalDataNoEffect(k) ==
    [X |-> MakeSlice(k), Treatment |-> MakeSlice(k), Outcome |-> MakeSlice(k),
     TrueEffect |-> 0]

\* data := &CausalData{...}
NewCausalData(k) ==
    [X |-> MakeSlice(k), Treatment |-> MakeSlice(k), Outcome |-> MakeSlice(k),
     TrueEffect |-> TrueEffect * Scale]

\* Variant: the control group coded as -1.
AssignTreatmentSigned(us, xs, old) == IF 2 * us < xs + Scale THEN 1 ELSE -1

\* Variant: the +1 of the threshold is missing.
AssignTreatmentNoShift(us, xs, old) == IF 2 * us < xs THEN 1 ELSE old

\* if rand.Float64() < 0.5*(data.X[i]+1) { data.Treatment[i] = 1 }
\* u < 0.5*(x + 1) with u = us/Scale and x = xs/Scale is 2*us < xs + Scale;
\* old is the value make() left in the slot.
AssignTreatment(us, xs, old) == IF 2 * us < xs + Scale THEN 1 ELSE old

\* Variant: the treatment term is missing from the outcome.
OutcomeOfUntreated(xs, t, te, noise) == xs + noise

\* data.X[i] + float64(data.Treatment[i])*data.TrueEffect + rand.NormFloat64()
OutcomeOf(xs, t, te, noise) == xs + t * te + noise

VARIABLES
    rng,          \* state of math/rand's process-wide source
    pc,           \* pc[p]: position of goroutine p
    n,            \* n[p]: argument n of the running GenerateCausalData
    seed,         \* seed[p]: argument seed
    i,            \* i[p]: loop index (0-based, as in the source)
    data,         \* data[p]: the *CausalData the goroutine works on
    treatSum, controlSum, treatCount, controlCount,  \* estimator locals
    effect,       \* effect[p]: value returned by EstimateCausalEffect
    ref,          \* a dataset returned by an earlier call, kept by the caller
    draws,        \* draws[p]: the calls to math/rand made by the running
                  \* GenerateCausalData, in the order they were made
    ate           \* ate[p]: the ate returned by R's estimate_simple_ate

vars == << rng, pc, n, seed, i, data, treatSum, controlSum, treatCount,
           controlCount, effect, ref, draws, ate >>

estLocals == << treatSum, controlSum, treatCount, controlCount >>

NoRef == [set |-> FALSE, n |-> 0, seed |-> 0, data |-> NilData, other |-> FALSE]

\* One call to math/rand: the function called, the loop index at the call,
\* the field of the unit the value is used for, and the value returned.
Draw(fn, unit, use, val) == [fn |-> fn, unit |-> unit, use |-> use, val |-> val]

Init ==
    /\ rng = 0
    /\ pc = [p \in Procs |-> "idle"]
    /\ n = [p \in Procs |-> 0]
    /\ seed = [p \in Procs |-> 0]
    /\ i = [p \in Procs |-> 0]
    /\ data = [p \in Procs |-> NilData]
    /\ treatSum = [p \in Procs |-> 0]
    /\ controlSum = [p \in Procs |-> 0]
    /\ treatCount = [p \in Procs |-> 0]
    /\ controlCount = [p \in Procs |-> 0]
    /\ effect = [p \in Procs |-> NoValue]
    /\ ref = NoRef
    /\ draws = [p \in Procs |-> << >>]
    /\ ate = [p \in Procs |-> NoValue]

\* --------------------------------------------------- GenerateCausalData
\* Entry: rand.Seed(seed), then the three make() calls; make panics on a
\* negative length.
GenCall(p, nn, sd) ==
    /\ pc[p] = "idle"
    /\ rng' = RandSeed(rng, sd)
    /\ n' = [n EXCEPT ![p] = nn]
    /\ seed' = [seed EXCEPT ![p] = sd]
    /\ i' = [i EXCEPT ![p] = 0]
    /\ IF nn < 0
       THEN /\ pc' = [pc EXCEPT ![p] = "panic"]
            /\ data' = data
       ELSE /\ pc' = [pc EXCEPT ![p] = "gen_loop"]
            /\ data' = [data EXCEPT ![p] = NewCausalData(nn)]
    /\ ref' = IF ref.set /\ << nn, sd >> # << ref.n, ref.seed >>
              THEN [ref EXCEPT !.other = TRUE] ELSE ref
    /\ draws' = [draws EXCEPT ![p] = << >>]
    /\ UNCHANGED << estLocals, effect, ate >>

\* data.X[i] = rand.NormFloat64()
GenDrawX(p) ==
    /\ pc[p] = "gen_loop"
    /\ i[p] < n[p]
    /\ rng' = Advance(rng)
    /\ IF i[p] + 1 \in DOMAIN data[p].X
       THEN /\ data' = [data EXCEPT ![p].X[i[p] + 1] = NormFloat64(rng)]
            /\ pc' = [pc EXCEPT ![p] = "gen_u"]
       ELSE /\ data' = data
            /\ pc' = [pc EXCEPT ![p] = "panic"]
    /\ draws' = [draws EXCEPT ![p] =
                   Append(@, Draw("NormFloat64", i[p], "X", NormFloat64(rng)))]
    /\ UNCHANGED << n, seed, i, estLocals, effect, ref, ate >>

\* Variant: no uniform draw when the threshold is 1 or more.
GenDrawUSkipping(p) ==
    /\ pc[p] = "gen_u"
    /\ IF data[p].X[i[p] + 1] + Scale >= 2 * Scale
       THEN /\ rng' = rng
            /\ draws' = draws
            /\ data' = [data EXCEPT ![p].Treatment[i[p] + 1] = 1]
       ELSE /\ rng' = Advance(rng)
            /\ draws' = [draws EXCEPT ![p] =
                           Append(@, Draw("Float64", i[p], "Treatment", Float64(rng)))]
            /\ data' = [data EXCEPT ![p].Treatment[i[p] + 1] =
                          AssignTreatment(Float64(rng), data[p].X[i[p] + 1], @)]
    /\ pc' = [pc EXCEPT ![p] = "gen_noise"]
    /\ UNCHANGED << n, seed, i, estLocals, effect, ref, ate >>

\* if rand.Float64() < 0.5*(data.X[i]+1) { data.Treatment[i] = 1 }
GenDrawU(p) ==
    /\ pc[p] = "gen_u"
    /\ rng' = Advance(rng)
    /\ IF i[p] + 1 \in DOMAIN data[p].Treatment
       THEN /\ data' = [data EXCEPT ![p].Treatment[i[p] + 1] =
                          AssignTreatment(Float64(rng), data[p].X[i[p] + 1], @)]
            /\ pc' = [pc EXCEPT ![p] = "gen_noise"]
       ELSE /\ data' = data
            /\ pc' = [pc EXCEPT ![p] = "panic"]
    /\ draws' = [draws EXCEPT ![p] =
                   Append(@, Draw("Float64", i[p], "Treatment", Float64(rng)))]
    /\ UNCHANGED << n, seed, i, estLocals, effect, ref, ate >>

\* data.Outcome[i] = data.X[i] + float64(data.Treatment[i])*data.TrueEffect
\*                   + rand.NormFloat64();  i++
GenDrawNoise(p) ==
    /\ pc[p] = "gen_noise"
    /\ rng' = Advance(rng)
    /\ IF i[p] + 1 \in DOMAIN data[p].Outcome
       THEN /\ data' = [data EXCEPT ![p].Outcome[i[p] + 1] =
                          OutcomeOf(data[p].X[i[p] + 1], data[p].Treatment[i[p] + 1],
                                    data[p].TrueEffect, NormFloat64(rng))]
            /\ i' = [i EXCEPT ![p] = @ + 1]
            /\ pc' = [pc EXCEPT ![p] = "gen_loop"]
       ELSE /\ data' = data
            /\ i' = i
            /\ pc' = [pc EXCEPT ![p] = "panic"]
    /\ draws' = [draws EXCEPT ![p] =
                   Append(@, Draw("NormFloat64", i[p], "Outcome", NormFloat64(rng)))]
    /\ UNCHANGED << n, seed, estLocals, effect, ref, ate >>

\* Loop exit and `return data`.  The caller may keep the returned dataset
\* to compare it with the result of a later call.
GenReturn(p) ==
    /\ pc[p] = "gen_loop"
    /\ ~(i[p] < n[p])
    /\ pc' = [pc EXCEPT ![p] = "gen_done"]
    /\ \E keep \in BOOLEAN :
         ref' = IF keep /\ p = Main
                THEN [set |-> TRUE, n |-> n[p], seed |-> seed[p],
                      data |-> data[p], other |-> FALSE]
                ELSE ref
    /\ UNCHANGED << rng, n, seed, i, data, estLocals, effect, draws, ate >>

\* --------------------------------------------------- EstimateCausalEffect
\* Variant: the test accepts every non-negative value.
IsTreatedNonNegative(t) == t >= 0

\* Variant: the test selects the control units.
IsTreatedSwapped(t) == t = 0

\* if data.Treatment[i] == 1
IsTreated(t) == t = 1

\* Variant: && instead of ||.
GroupEmptyBoth(tc, cc) == tc = 0 /\ cc = 0

\* if treatCount == 0 || controlCount == 0
GroupEmpty(tc, cc) == tc = 0 \/ cc = 0

\* Variant: the edge-case test is missing.
EstimateValueUnguarded(ts, cs, tc, cc) == FSub(FDiv(ts, tc), FDiv(cs, cc))

\* The value returned after the pass (lines 56-61).
EstimateValue(ts, cs, tc, cc) ==
    IF GroupEmpty(tc, cc)
    THEN Zero
    ELSE FSub(FDiv(ts, tc), FDiv(cs, cc))

\* Datasets a caller builds by hand: equal-length slices, Treatment 0 or 1
\* (the documented contents of the struct), TrueEffect 5.0.
XVals == {-Scale, Scale}
OutVals == {-2, 0, 3}
TreatVals == {0, 1}

ConstructedData ==
    UNION { { [X |-> x, Treatment |-> t, Outcome |-> o, TrueEffect |-> TrueEffect * Scale] :
                x \in [1 .. k -> XVals], t \in [1 .. k -> TreatVals],
                o \in [1 .. k -> OutVals] } : k \in 0 .. MaxLen }

\* Function entry: var treatSum, controlSum float64; var treatCount,
\* controlCount int.
EstEnter(p, d) ==
    /\ data' = [data EXCEPT ![p] = d]
    /\ treatSum' = [treatSum EXCEPT ![p] = 0]
    /\ controlSum' = [controlSum EXCEPT ![p] = 0]
    /\ treatCount' = [treatCount EXCEPT ![p] = 0]
    /\ controlCount' = [controlCount EXCEPT ![p] = 0]
    /\ i' = [i EXCEPT ![p] = 0]
    /\ pc' = [pc EXCEPT ![p] = "est_loop"]
    /\ UNCHANGED << rng, n, seed, effect, ref, draws, ate >>

\* effect := EstimateCausalEffect(data) on the dataset just generated.
EstCall(p) ==
    /\ pc[p] = "gen_done"
    /\ EstEnter(p, data[p])

\* EstimateCausalEffect on a dataset the caller constructed.
EstCallConstructed(p, d) ==
    /\ pc[p] = "idle"
    /\ EstEnter(p, d)

\* Variant: the pass clears each outcome after adding it.
EstStepConsuming(p) ==
    /\ pc[p] = "est_loop"
    /\ i[p] < Len(data[p].X)
    /\ IF IsTreated(data[p].Treatment[i[p] + 1])
       THEN /\ treatSum' = [treatSum EXCEPT ![p] = @ + data[p].Outcome[i[p] + 1]]
            /\ treatCount' = [treatCount EXCEPT ![p] = @ + 1]
            /\ UNCHANGED << controlSum, controlCount >>
       ELSE /\ controlSum' = [controlSum EXCEPT ![p] = @ + data[p].Outcome[i[p] + 1]]
            /\ controlCount' = [controlCount EXCEPT ![p] = @ + 1]
            /\ UNCHANGED << treatSum, treatCount >>
    /\ data' = [data EXCEPT ![p].Outcome[i[p] + 1] = 0]
    /\ i' = [i EXCEPT ![p] = @ + 1]
    /\ UNCHANGED << rng, pc, n, seed, effect, ref, draws, ate >>

\* One iteration of `for i := range data.X`.
EstStep(p) ==
    /\ pc[p] = "est_loop"
    /\ i[p] < Len(data[p].X)
    /\ IF i[p] + 1 \in DOMAIN data[p].Treatment /\ i[p] + 1 \in DOMAIN data[p].Outcome
       THEN /\ IF IsTreated(data[p].Treatment[i[p] + 1])
               THEN /\ treatSum' = [treatSum EXCEPT ![p] = @ + data[p].Outcome[i[p] + 1]]
                    /\ treatCount' = [treatCount EXCEPT ![p] = @ + 1]
                    /\ UNCHANGED << controlSum, controlCount >>
               ELSE /\ controlSum' = [controlSum EXCEPT ![p] = @ + data[p].Outcome[i[p] + 1]]
                    /\ controlCount' = [controlCount EXCEPT ![p] = @ + 1]
                    /\ UNCHANGED << treatSum, treatCount >>
            /\ i' = [i EXCEPT ![p] = @ + 1]
            /\ pc' = pc
       ELSE /\ pc' = [pc EXCEPT ![p] = "panic"]
            /\ UNCHANGED << i, estLocals >>
    /\ UNCHANGED << rng, n, seed, data, effect, ref, draws, ate >>

\* End of the pass: the edge-case test and the return.
EstReturn(p) ==
    /\ pc[p] = "est_loop"
    /\ ~(i[p] < Len(data[p].X))
    /\ effect' = [effect EXCEPT ![p] =
                    EstimateValue(treatSum[p], controlSum[p], treatCount[p], controlCount[p])]
    /\ pc' = [pc EXCEPT ![p] = "est_done"]
    /\ UNCHANGED << rng, n, seed, i, data, estLocals, ref, draws, ate >>

\* The caller is done with the results and goes on to its next call
\* (the next iteration of the benchmark loop, the next test).
NextCall(p) ==
    /\ pc[p] \in {"gen_done", "est_done", "r_done"}
    /\ pc' = [pc EXCEPT ![p] = "idle"]
    /\ n' = [n EXCEPT ![p] = 0]
    /\ seed' = [seed EXCEPT ![p] = 0]
    /\ i' = [i EXCEPT ![p] = 0]
    /\ data' = [data EXCEPT ![p] = NilData]
    /\ treatSum' = [treatSum EXCEPT ![p] = 0]
    /\ controlSum' = [controlSum EXCEPT ![p] = 0]
    /\ treatCount' = [treatCount EXCEPT ![p] = 0]
    /\ controlCount' = [controlCount EXCEPT ![p] = 0]
    /\ effect' = [effect EXCEPT ![p] = NoValue]
    /\ draws' = [draws EXCEPT ![p] = << >>]
    /\ ate' = [ate EXCEPT ![p] = NoValue]
    /\ UNCHANGED << rng, ref >>

\* --------------------------------------------- estimate_simple_ate (R)
\* data$outcome[data$treatment == v]: the outcomes of the rows whose
\* treatment is v, in row order.
RECURSIVE Subset(_, _, _)
Subset(o, t, v) ==
    IF Len(o) = 0 THEN << >>
    ELSE IF Head(t) = v
         THEN << Head(o) >> \o Subset(Tail(o), Tail(t), v)
         ELSE Subset(Tail(o), Tail(t), v)

RECURSIVE SeqSum(_)
SeqSum(v) == IF Len(v) = 0 THEN 0 ELSE Head(v) + SeqSum(Tail(v))

\* R's mean(): sum(v) / length(v); NaN for a vector of length 0.
mean(v) == IF Len(v) = 0 THEN NaN ELSE Frac(SeqSum(v), Len(v))

\* ate <- mean(treated) - mean(control)
estimate_simple_ate(d) ==
    LET treated == Subset(d.Outcome, d.Treatment, 1)
        control == Subset(d.Outcome, d.Treatment, 0)
    IN  FSub(mean(treated), mean(control))

\* results <- estimate_simple_ate(data), on the rows the Go estimator was
\* just given.
REstimate(p) ==
    /\ pc[p] = "est_done"
    /\ ate' = [ate EXCEPT ![p] = estimate_simple_ate(data[p])]
    /\ pc' = [pc EXCEPT ![p] = "r_done"]
    /\ UNCHANGED << rng, n, seed, i, data, estLocals, effect, ref, draws >>

\* ------------------------------------------------------- specifications
\* Sequential use: one goroutine (main, the test, the benchmark loop)
\* generates a dataset, estimates on it, and goes on to the next call.
Next ==
    \/ \E nn \in Sizes, sd \in Seeds : GenCall(Main, nn, sd)
    \/ GenDrawX(Main)
    \/ GenDrawU(Main)
    \/ GenDrawNoise(Main)
    \/ GenReturn(Main)
    \/ EstCall(Main)
    \/ EstStep(Main)
    \/ EstReturn(Main)
    \/ NextCall(Main)

Spec == Init /\ [][Next]_vars

\* The same, with the goroutine never stopping while it has a step to take.
FairSpec == Spec /\ WF_vars(Next)

\* EstimateCausalEffect as a function of its argument: the caller passes
\* datasets it constructed.
NextEst ==
    \/ \E d \in ConstructedData : EstCallConstructed(Main, d)
    \/ EstStep(Main)
    \/ EstReturn(Main)
    \/ NextCall(Main)

SpecEst == Init /\ [][NextEst]_vars

\* Both estimators on the same constructed dataset, Go first, then R.
NextCmp ==
    \/ \E d \in ConstructedData : EstCallConstructed(Main, d)
    \/ EstStep(Main)
    \/ EstReturn(Main)
    \/ REstimate(Main)
    \/ NextCall(Main)

SpecCmp == Init /\ [][NextCmp]_vars

\* Parallel use: two goroutines each call GenerateCausalData; the steps
\* that touch the shared source interleave freely.
NextPar ==
    \/ \E p \in Procs, nn \in ParSizes, sd \in ParSeeds : GenCall(p, nn, sd)
    \/ \E p \in Procs : GenDrawX(p)
    \/ \E p \in Procs : GenDrawU(p)
    \/ \E p \in Procs : GenDrawNoise(p)
    \/ \E p \in Procs : GenReturn(p)

SpecPar == Init /\ [][NextPar]_vars

\* ================================================================ claims
\* Index sets of the two groups of a dataset, and the sum of a slice over
\* an index set.
TreatedOf(d) == { k \in DOMAIN d.Treatment : d.Treatment[k] = 1 }

ControlOf(d) == { k \in DOMAIN d.Treatment : d.Treatment[k] = 0 }

RECURSIVE SumOver(_, _)
SumOver(o, S) ==
    IF S = {} THEN 0
    ELSE LET k == CHOOSE j \in S : TRUE
         IN  o[k] + SumOver(o, S \ {k})

AllTreatment(d, v) == \A k \in DOMAIN d.Treatment : d.Treatment[k] = v

\* C1: when GenerateCausalData(n, seed) returns, X, Treatment and Outcome
\* all have length n.
C1_Lengths ==
    \A p \in Procs :
        pc[p] = "gen_done" =>
            /\ Len(data[p].X) = n[p]
            /\ Len(data[p].Treatment) = n[p]
            /\ Len(data[p].Outcome) = n[p]

C1_Witness ==
    /\ pc[Main] = "gen_done"
    /\ n[Main] >= 2
    /\ Len(data[Main].Outcome) >= 2

\* C2: every element of Treatment of a returned dataset, and of a dataset
\* under construction, is 0 or 1.
C2_BinaryTreatment ==
    \A p \in Procs :
        pc[p] \in {"gen_loop", "gen_u", "gen_noise", "gen_done"} =>
            \A k \in DOMAIN data[p].Treatment : data[p].Treatment[k] \in {0, 1}

C2_Witness ==
    /\ pc[Main] = "gen_done"
    /\ \E k \in DOMAIN data[Main].Treatment : data[Main].Treatment[k] = 0
    /\ \E k \in DOMAIN data[Main].Treatment : data[Main].Treatment[k] = 1

\* C3: on a dataset whose treatment values are all 0 or all 1,
\* EstimateCausalEffect does not panic and returns exactly 0.
C3_EmptyGroupZero ==
    \A p \in Procs :
        (AllTreatment(data[p], 0) \/ AllTreatment(data[p], 1)) =>
            /\ pc[p] = "est_done" => effect[p] = Zero
            /\ pc[p] = "panic" => data[p] = NilData

C3_Witness ==
    /\ pc[Main] = "est_done"
    /\ Len(data[Main].Treatment) >= 2
    /\ AllTreatment(data[Main], 1)
    /\ \E k \in DOMAIN data[Main].Outcome : data[Main].Outcome[k] # 0
    /\ effect[Main] = Zero

\* C4: on a dataset with at least one treated and one control unit, the
\* returned value is (sum of treated outcomes / number treated) minus
\* (sum of control outcomes / number of controls).
C4_DifferenceInMeans ==
    \A p \in Procs :
        LET d  == data[p]
            nt == Cardinality(TreatedOf(d))
            nc == Cardinality(ControlOf(d))
            st == SumOver(d.Outcome, TreatedOf(d))
            sc == SumOver(d.Outcome, ControlOf(d))
        IN  (pc[p] = "est_done" /\ nt > 0 /\ nc > 0) =>
                /\ effect[p].kind = "num"
                /\ effect[p].den > 0
                /\ effect[p].num * nt * nc = effect[p].den * (st * nc - sc * nt)

C4_Witness ==
    /\ pc[Main] = "est_done"
    /\ Cardinality(TreatedOf(data[Main])) = 2
    /\ Cardinality(ControlOf(data[Main])) = 1
    /\ effect[Main].kind = "num"
    /\ effect[Main].den = 2

\* C5: a call GenerateCausalData(n, seed) returns the same X, Treatment
\* and Outcome as any earlier call with the same n and seed, whatever
\* calls the goroutine made in between.
C5_SequentialDeterminism ==
    (pc[Main] = "gen_done" /\ ref.set /\ ref.n = n[Main] /\ ref.seed = seed[Main]) =>
        /\ data[Main].X = ref.data.X
        /\ data[Main].Treatment = ref.data.Treatment
        /\ data[Main].Outcome = ref.data.Outcome

\* A second call with the pair of a kept dataset has returned, after a
\* call with another pair was made in between.
C5_Witness ==
    /\ pc[Main] = "gen_done"
    /\ ref.set /\ ref.other
    /\ ref.n = n[Main] /\ ref.seed = seed[Main]
    /\ n[Main] >= 2

\* The dataset GenerateCausalData(nn, sd) builds when nothing else touches
\* the source between its rand.Seed and its last draw.
RECURSIVE AloneFrom(_, _, _, _)
AloneFrom(d, r, k, nn) ==
    IF k >= nn THEN d
    ELSE LET x   == NormFloat64(r)
             r1  == Advance(r)
             t   == AssignTreatment(Float64(r1), x, 0)
             r2  == Advance(r1)
             o   == OutcomeOf(x, t, d.TrueEffect, NormFloat64(r2))
         IN  AloneFrom([d EXCEPT !.X[k + 1] = x, !.Treatment[k + 1] = t,
                                 !.Outcome[k + 1] = o],
                       Advance(r2), k + 1, nn)

AloneData(nn, sd) == AloneFrom(NewCausalData(nn), SeedState(sd), 0, nn)

\* C6: when two GenerateCausalData calls run concurrently, each returns
\* the dataset it returns when run alone.
C6_ParallelIndependence ==
    \A p, q \in Procs :
        (/\ pc[p] = "gen_done"
         /\ q # p /\ pc[q] # "idle"
         /\ << n[p], seed[p] >> # << n[q], seed[q] >>) =>
            data[p] = AloneData(n[p], seed[p])

\* C7: GenerateCausalData(0, seed) returns three empty slices, and
\* EstimateCausalEffect on that dataset returns 0.
C7_EmptyDataset ==
    n[Main] = 0 =>
        /\ pc[Main] \in {"gen_done", "est_loop", "est_done"} =>
              /\ data[Main].X = << >>
              /\ data[Main].Treatment = << >>
              /\ data[Main].Outcome = << >>
        /\ pc[Main] = "est_done" => effect[Main] = Zero
        /\ pc[Main] # "panic"

C7_Witness ==
    /\ pc[Main] = "est_done"
    /\ n[Main] = 0
    /\ seed[Main] > 0
    /\ data[Main].X = << >>

\* C8: GenerateCausalData(1, seed) returns exactly one unit, and
\* EstimateCausalEffect on it returns exactly 0 whether that unit is
\* treated or not.
C8_SingleUnit ==
    n[Main] = 1 =>
        /\ pc[Main] \in {"gen_done", "est_loop", "est_done"} =>
              /\ Len(data[Main].X) = 1
              /\ Len(data[Main].Treatment) = 1
              /\ Len(data[Main].Outcome) = 1
        /\ pc[Main] = "est_done" => effect[Main] = Zero

C8_Witness ==
    /\ pc[Main] = "est_done"
    /\ n[Main] = 1
    /\ data[Main].Treatment = << 1 >>
    /\ data[Main].Outcome[1] # 0

\* C9: no step of EstimateCausalEffect, from its entry to its return,
\* changes X, Treatment, Outcome or TrueEffect of the dataset it was given.
C9_EstimatorFrame ==
    [][\A p \in Procs : pc[p] = "est_loop" => data'[p] = data[p]]_vars

\* The normal path has returned on a dataset with non-zero outcomes.
C9_Witness ==
    /\ pc[Main] = "est_done"
    /\ Cardinality(TreatedOf(data[Main])) >= 1
    /\ Cardinality(ControlOf(data[Main])) >= 1
    /\ \A k \in DOMAIN data[Main].Outcome : data[Main].Outcome[k] # 0
    /\ effect[Main] # Zero

\* C10: for n >= 0, GenerateCausalData followed by EstimateCausalEffect on
\* its result never panics, the generation returns, and the estimation
\* returns a finite number.
C10_NoFailure ==
    /\ [](pc[Main] = "panic" => n[Main] < 0)
    /\ (pc[Main] = "gen_loop") ~> (pc[Main] = "gen_done")
    /\ (pc[Main] = "est_loop") ~> (pc[Main] = "est_done" /\ effect[Main].kind = "num")

C10_Witness ==
    /\ pc[Main] = "est_done"
    /\ n[Main] >= 2
    /\ Len(data[Main].X) = n[Main]
    /\ effect[Main].kind = "num"

\* The positions of a running or returned GenerateCausalData.
GenPcs == {"gen_loop", "gen_u", "gen_noise", "gen_done"}

\* The value of the draw goroutine p made for field use of unit k (1-based).
DrawnFor(p, k, use) ==
    LET j == CHOOSE j \in DOMAIN draws[p] :
                 draws[p][j].unit = k - 1 /\ draws[p][j].use = use
    IN  draws[p][j].val

\* C11: the TrueEffect field of the dataset is 5.0 from allocation to
\* return, and every finished unit's outcome carries exactly 5.0 times its
\* treatment on top of covariate and noise.
C11_TrueEffectConstant ==
    \A p \in Procs :
        pc[p] \in GenPcs =>
            /\ data[p].TrueEffect = 5 * Scale
            /\ \A k \in 1 .. i[p] :
                  data[p].Outcome[k] - data[p].X[k] - DrawnFor(p, k, "Outcome")
                      = 5 * Scale * data[p].Treatment[k]

C11_Witness ==
    /\ pc[Main] = "gen_done"
    /\ n[Main] >= 2
    /\ data[Main].TrueEffect = 5 * Scale
    /\ data[Main].Treatment[1] # data[Main].Treatment[2]

\* C13: GenerateCausalData draws, for unit 0, 1, 2, ... in turn, first
\* NormFloat64 for the covariate, then Float64 for the treatment, then
\* NormFloat64 for the noise; no draw of a unit precedes a draw of an
\* earlier unit, and a returned call has made exactly 3n draws.
C13_DrawOrder ==
    \A p \in Procs :
        pc[p] \in GenPcs =>
            /\ \A j \in DOMAIN draws[p] :
                  /\ draws[p][j].unit = (j - 1) \div 3
                  /\ (j - 1) % 3 = 0 =>
                        draws[p][j].fn = "NormFloat64" /\ draws[p][j].use = "X"
                  /\ (j - 1) % 3 = 1 =>
                        draws[p][j].fn = "Float64" /\ draws[p][j].use = "Treatment"
                  /\ (j - 1) % 3 = 2 =>
                        draws[p][j].fn = "NormFloat64" /\ draws[p][j].use = "Outcome"
            /\ Len(draws[p]) = 3 * i[p] + (CASE pc[p] = "gen_u" -> 1
                                             [] pc[p] = "gen_noise" -> 2
                                             [] OTHER -> 0)
            /\ pc[p] = "gen_done" => Len(draws[p]) = 3 * n[p]

C13_Witness ==
    /\ pc[Main] = "gen_done"
    /\ n[Main] >= 2
    /\ Len(draws[Main]) >= 6
    /\ draws[Main][5].fn = "Float64"
    /\ draws[Main][5].unit = 1

\* C14: for every unit whose treatment has been assigned, the uniform draw
\* u lies in [0, 1) and treatment is 1 exactly when u < 0.5 * (covariate + 1),
\* else 0; so covariate >= 1 gives treatment 1 and covariate <= -1 gives 0.
C14_TreatmentRule ==
    \A p \in Procs :
        pc[p] \in GenPcs =>
            \A k \in 1 .. (i[p] + IF pc[p] = "gen_noise" THEN 1 ELSE 0) :
                LET u == DrawnFor(p, k, "Treatment")
                    x == data[p].X[k]
                    t == data[p].Treatment[k]
                IN  /\ u \in 0 .. Scale - 1
                    /\ t = (IF 2 * u < x + Scale THEN 1 ELSE 0)
                    /\ x >= Scale => t = 1
                    /\ x <= -Scale => t = 0

\* Returned dataset with a unit at or above 1, a unit at or below -1 and a
\* unit strictly in between.
C14_Witness ==
    /\ pc[Main] = "gen_done"
    /\ \E k \in DOMAIN data[Main].X :
          data[Main].X[k] >= Scale /\ data[Main].Treatment[k] = 1
    /\ \E k \in DOMAIN data[Main].X :
          data[Main].X[k] <= -Scale /\ data[Main].Treatment[k] = 0
    /\ \E k \in DOMAIN data[Main].X :
          data[Main].X[k] > -Scale /\ data[Main].X[k] < Scale

\* C15: every finished unit has Outcome = X + TrueEffect * Treatment + noise,
\* with noise the unit's third draw and Treatment the value assigned to the
\* unit by its second draw.
C15_OutcomeFormula ==
    \A p \in Procs :
        pc[p] \in GenPcs =>
            \A k \in 1 .. i[p] :
                data[p].Outcome[k] =
                    data[p].X[k] + data[p].TrueEffect * data[p].Treatment[k]
                    + DrawnFor(p, k, "Outcome")

C15_Witness ==
    /\ pc[Main] = "gen_loop"
    /\ i[Main] >= 1
    /\ i[Main] < n[Main]
    /\ data[Main].Treatment[i[Main]] = 1
    /\ DrawnFor(Main, i[Main], "Outcome") # 0

\* C16: on every dataset with treatment values in {0, 1}, Go's
\* EstimateCausalEffect and R's estimate_simple_ate return the same value,
\* also when the treated or the control group is empty (both 0).
C16_EstimatorsAgree ==
    pc[Main] = "r_done" =>
        /\ ate[Main] = effect[Main]
        /\ (AllTreatment(data[Main], 0) \/ AllTreatment(data[Main], 1)) =>
              ate[Main] = Zero

\* C17: during the pass every index below i has been counted in exactly
\* one group, control exactly when its treatment value is 0, so that
\* treatCount + controlCount = len(X) when the pass ends.
C17_Partition ==
    \A p \in Procs :
        pc[p] \in {"est_loop", "est_done"} =>
            LET seen == 1 .. i[p]
            IN  /\ treatCount[p] + controlCount[p] = i[p]
                /\ controlCount[p] =
                      Cardinality({ k \in seen : data[p].Treatment[k] = 0 })
                /\ treatCount[p] =
                      Cardinality({ k \in seen : data[p].Treatment[k] = 1 })
                /\ pc[p] = "est_done" =>
                      treatCount[p] + controlCount[p] = Len(data[p].X)

C17_Witness ==
    /\ pc[Main] = "est_done"
    /\ Len(data[Main].X) >= 3
    /\ controlCount[Main] >= 2
    /\ treatCount[Main] >= 1
    /\ data[Main].Treatment[1] = 0

====
